---- MODULE Spec2Model ----
(***************************************************************************)
(* A model of the Seekers simulation core: the torus geometry of World,    *)
(* the bodies of seekers_types.py (Physical, Seeker, Goal, Magnet, Camp),  *)
(* the player adapter LocalPlayer and the tick engine of game_logic.py.    *)
(*                                                                         *)
(* Numbers.  Python floats are modelled by exact rationals <<n, d>> in     *)
(* lowest terms with d > 0.  The one place where the rounding of binary    *)
(* floating point decides a property, World.normalize_position, rounds     *)
(* each of its float operations to Prec significant bits (fl); every       *)
(* other value the specifications below compute needs fewer bits than      *)
(* that or is compared only up to the rounding the specification allows.   *)
(* math.sqrt is modelled on the rationals whose root is rational; the      *)
(* inputs are drawn so that every length taken is of that kind.            *)
(***************************************************************************)
EXTENDS Integers, Sequences, FiniteSets, TLC

(***************************************************************************)
(* Rational arithmetic                                                     *)
(***************************************************************************)
Abs(n) == IF n < 0 THEN -n ELSE n

RECURSIVE GCD(_, _)
GCD(a, b) == IF b = 0 THEN a ELSE GCD(b, a % b)

Rat(n, d) ==
  LET s == IF d < 0 THEN -1 ELSE 1
      g == GCD(Abs(n), Abs(d))
  IN  <<(s * n) \div g, (s * d) \div g>>

Num(n) == <<n, 1>>
Zero == Num(0)
One == Num(1)

RAdd(a, b) == Rat(a[1] * b[2] + b[1] * a[2], a[2] * b[2])
RSub(a, b) == Rat(a[1] * b[2] - b[1] * a[2], a[2] * b[2])
RMul(a, b) == Rat(a[1] * b[1], a[2] * b[2])
RDiv(a, b) == Rat(a[1] * b[2], a[2] * b[1])
RNeg(a) == <<-a[1], a[2]>>
RAbs(a) == <<Abs(a[1]), a[2]>>
RLt(a, b) == a[1] * b[2] < b[1] * a[2]
RLe(a, b) == a[1] * b[2] <= b[1] * a[2]
RFloor(a) == a[1] \div a[2]

\* The integer square root, by bisection; math.sqrt on the rationals whose root
\* is rational (on no other: the CASE has no other arm).
RECURSIVE SqrtSearch(_, _, _)
SqrtSearch(n, lo, hi) ==
  IF lo >= hi THEN lo
  ELSE LET mid == (lo + hi + 1) \div 2
       IN  IF mid * mid <= n THEN SqrtSearch(n, mid, hi) ELSE SqrtSearch(n, lo, mid - 1)

ISqrt(n) == SqrtSearch(n, 0, IF n < 46340 THEN n ELSE 46340)
IsSquare(n) == ISqrt(n) * ISqrt(n) = n
HasRSqrt(a) == a[1] >= 0 /\ IsSquare(a[1]) /\ IsSquare(a[2])
RSqrt(a) == CASE HasRSqrt(a) -> <<ISqrt(a[1]), ISqrt(a[2])>>

(***************************************************************************)
(* Binary floating point with Prec significant bits, round to nearest,     *)
(* ties to even (the exponent range is not bounded).                       *)
(***************************************************************************)
Prec == 6

RECURSIVE Pow2(_)
Pow2(k) == IF k = 0 THEN 1 ELSE 2 * Pow2(k - 1)

RoundHalfEven(n, d) ==
  LET q == n \div d
      r == n % d
  IN  IF 2 * r < d THEN q
      ELSE IF 2 * r > d THEN q + 1
      ELSE IF q % 2 = 0 THEN q ELSE q + 1

RECURSIVE ScaleUp(_, _, _)
ScaleUp(n, d, k) == IF n >= d * Pow2(Prec - 1) THEN k ELSE ScaleUp(2 * n, d, k + 1)

RECURSIVE ScaleDown(_, _, _)
ScaleDown(n, d, k) == IF n < d * Pow2(Prec) THEN k ELSE ScaleDown(n, 2 * d, k + 1)

FlPos(n, d) ==
  IF n < d * Pow2(Prec - 1)
  THEN LET k == ScaleUp(n, d, 0) IN Rat(RoundHalfEven(n * Pow2(k), d), Pow2(k))
  ELSE LET k == ScaleDown(n, d, 0) IN Rat(RoundHalfEven(n, d * Pow2(k)) * Pow2(k), 1)

fl(a) ==
  IF a[1] = 0 THEN Zero
  ELSE IF a[1] < 0 THEN RNeg(FlPos(-a[1], a[2]))
  ELSE FlPos(a[1], a[2])

(***************************************************************************)
(* Vector                                                                  *)
(***************************************************************************)
Vector(x, y) == [x |-> x, y |-> y]
Vec(i, j) == Vector(Num(i), Num(j))

Vector_add(a, b) == Vector(RAdd(a.x, b.x), RAdd(a.y, b.y))
Vector_sub(a, b) == Vector(RSub(a.x, b.x), RSub(a.y, b.y))
Vector_rmul(f, a) == Vector(RMul(f, a.x), RMul(f, a.y))
Vector_truediv(a, f) == Vector(RDiv(a.x, f), RDiv(a.y, f))
Vector_neg(a) == Vector_rmul(Num(-1), a)
Vector_dot(a, b) == RAdd(RMul(a.x, b.x), RMul(a.y, b.y))
Vector_squared_length(a) == RAdd(RMul(a.x, a.x), RMul(a.y, a.y))
HasLength(a) == HasRSqrt(Vector_squared_length(a))
Vector_length(a) == RSqrt(Vector_squared_length(a))

Vector_normalized(a) ==
  LET norm == Vector_length(a)
  IN  IF norm = Zero THEN Vector(Zero, Zero)
      ELSE Vector(RDiv(a.x, norm), RDiv(a.y, norm))

(***************************************************************************)
(* World: the torus geometry                                               *)
(***************************************************************************)
World(width, height) == [width |-> width, height |-> height]

normalize1d(l, x) == fl(RSub(x, fl(RMul(Num(RFloor(fl(RDiv(x, l)))), l))))

World_normalize_position(w, pos) ==
  Vector(normalize1d(w.width, pos.x), normalize1d(w.height, pos.y))

diff1d(l, a, b) ==
  LET delta == RAbs(RSub(a, b))
  IN  IF RLt(delta, RSub(l, delta)) THEN RSub(b, a) ELSE RSub(a, b)

World_torus_difference(w, left, right) ==
  Vector(diff1d(w.width, left.x, right.x), diff1d(w.height, left.y, right.y))

World_torus_distance(w, left, right) ==
  Vector_length(World_torus_difference(w, left, right))

World_torus_direction(w, left, right) ==
  Vector_normalized(World_torus_difference(w, left, right))

\* World.index_of_nearest: "if dn < d" and the scan over positions[1:], whose
\* i counts from 0; the index returned counts from 0 as well.
nearer_or_equal(dn, d) == RLe(dn, d)

nearer(dn, d) == RLt(dn, d)

RECURSIVE index_scan(_, _, _, _, _, _)
index_scan(w, pos, positions, i, d, j) ==
  IF i + 2 > Len(positions) THEN j
  ELSE LET dn == World_torus_distance(w, pos, positions[i + 2])
       IN  IF nearer(dn, d) THEN index_scan(w, pos, positions, i + 1, dn, i + 1)
           ELSE index_scan(w, pos, positions, i + 1, d, j)

World_index_of_nearest(w, pos, positions) ==
  index_scan(w, pos, positions, 0, World_torus_distance(w, pos, positions[1]), 0)

(***************************************************************************)
(* Physical, Magnet, Seeker                                                *)
(***************************************************************************)
Magnet(strength) == [strength |-> strength]
Magnet_is_on(magnet) == magnet.strength # Zero

\* Seeker.__init__ over Physical.__init__: target = position.copy(),
\* disabled_counter = 0, magnet = Magnet(), acceleration = Vector(0, 0).
Seeker(owner, disabled_time, magnet_slowdown, base_thrust, position, velocity, mass, radius, friction) ==
  [owner |-> owner, position |-> position, velocity |-> velocity,
   acceleration |-> Vector(Zero, Zero), mass |-> mass, radius |-> radius,
   friction |-> friction, target |-> position, disabled_counter |-> 0,
   magnet |-> Magnet(Zero), disabled_time |-> disabled_time,
   magnet_slowdown |-> magnet_slowdown, base_thrust |-> base_thrust]

Seeker_is_disabled(s) == s.disabled_counter > 0
Seeker_disable(s) == [s EXCEPT !.disabled_counter = s.disabled_time]
Seeker_magnet_effective(s) == Magnet_is_on(s.magnet) /\ ~Seeker_is_disabled(s)

\* Physical.collision(self, other, world): the pair <<self, other>> afterwards.
Physical_collision_wrong_mass(self, other, w) ==
  LET d == World_torus_difference(w, self.position, other.position)
      dn == Vector_normalized(d)
      dv == Vector_sub(other.velocity, self.velocity)
      m == RDiv(Num(2), RAdd(self.mass, other.mass))
      dvdn == Vector_dot(dv, dn)
  IN  IF RLt(dvdn, Zero)
      THEN <<[self EXCEPT !.velocity =
                Vector_add(self.velocity, Vector_rmul(RMul(RMul(m, other.mass), dvdn), dn))],
             [other EXCEPT !.velocity =
                Vector_sub(other.velocity, Vector_rmul(RMul(RMul(m, other.mass), dvdn), dn))]>>
      ELSE <<self, other>>

Physical_collision_inelastic(self, other, w) ==
  LET d == World_torus_difference(w, self.position, other.position)
      dn == Vector_normalized(d)
      dv == Vector_sub(other.velocity, self.velocity)
      m == RDiv(One, RAdd(self.mass, other.mass))
      dvdn == Vector_dot(dv, dn)
  IN  IF RLt(dvdn, Zero)
      THEN <<[self EXCEPT !.velocity =
                Vector_add(self.velocity, Vector_rmul(RMul(RMul(m, other.mass), dvdn), dn))],
             [other EXCEPT !.velocity =
                Vector_sub(other.velocity, Vector_rmul(RMul(RMul(m, self.mass), dvdn), dn))]>>
      ELSE <<self, other>>

Physical_collision(self, other, w) ==
  LET min_dist == RAdd(self.radius, other.radius)
      d == World_torus_difference(w, self.position, other.position)
      dn == Vector_normalized(d)
      dv == Vector_sub(other.velocity, self.velocity)
      m == RDiv(Num(2), RAdd(self.mass, other.mass))
      dvdn == Vector_dot(dv, dn)
      impulse == RLt(dvdn, Zero)
      v1 == IF impulse
            THEN Vector_add(self.velocity, Vector_rmul(RMul(RMul(m, other.mass), dvdn), dn))
            ELSE self.velocity
      v2 == IF impulse
            THEN Vector_sub(other.velocity, Vector_rmul(RMul(RMul(m, self.mass), dvdn), dn))
            ELSE other.velocity
      ddn == Vector_dot(d, dn)
      correct == RLt(ddn, min_dist)
      p1 == IF correct
            THEN Vector_add(self.position, Vector_rmul(RSub(ddn, min_dist), dn))
            ELSE self.position
      p2 == IF correct
            THEN Vector_sub(other.position, Vector_rmul(RSub(ddn, min_dist), dn))
            ELSE other.position
  IN  <<[self EXCEPT !.velocity = v1, !.position = p1],
        [other EXCEPT !.velocity = v2, !.position = p2]>>

\* Seeker.collision(self, other, world): the pair <<self, other>> afterwards.
Seeker_collision_effective_first(self, other, w) ==
  LET s1 == IF Seeker_magnet_effective(self) THEN Seeker_disable(self) ELSE self
      o1 == IF Seeker_magnet_effective(other) THEN Seeker_disable(other) ELSE other
      neither == ~(Seeker_magnet_effective(s1) \/ Seeker_magnet_effective(o1))
      s2 == IF neither THEN Seeker_disable(s1) ELSE s1
      o2 == IF neither THEN Seeker_disable(o1) ELSE o1
  IN  Physical_collision(s2, o2, w)

Seeker_collision(self, other, w) ==
  LET neither == ~(Seeker_magnet_effective(self) \/ Seeker_magnet_effective(other))
      s1 == IF neither THEN Seeker_disable(self) ELSE self
      o1 == IF neither THEN Seeker_disable(other) ELSE other
      s2 == IF Seeker_magnet_effective(s1) THEN Seeker_disable(s1) ELSE s1
      o2 == IF Seeker_magnet_effective(o1) THEN Seeker_disable(o1) ELSE o1
  IN  Physical_collision(s2, o2, w)

(***************************************************************************)
(* Magnet.strength's setter, and LocalPlayer's handling of an AI output    *)
(***************************************************************************)
\* The strength setter: the magnet afterwards, or ValueError.
Magnet_set_strength_clamping(magnet, value) ==
  [exc |-> "none",
   magnet |-> [magnet EXCEPT !.strength =
                 IF RLt(One, value) THEN One
                 ELSE IF RLt(value, Num(-8)) THEN Num(-8) ELSE value]]

Magnet_set_strength(magnet, value) ==
  IF RLe(value, One) /\ RLe(Num(-8), value)
  THEN [exc |-> "none", magnet |-> [magnet EXCEPT !.strength = value]]
  ELSE [exc |-> "ValueError", magnet |-> magnet]

\* Python values an AI can leave in a target component or a magnet strength.
PyFloat(r) == [type |-> "float", val |-> r]
PyStr(text) == [type |-> "str", val |-> text]
PyNone == [type |-> "NoneType", val |-> "None"]

\* The decimal strings the outputs below use, and the number each one denotes.
Numerals == {"4", "-8.0"}
ParseNumeral(text) == IF text = "4" THEN Num(4) ELSE Num(-8)

\* float(v): the number, or the exception float raises.
py_float(v) ==
  IF v.type = "float" THEN [exc |-> "none", val |-> v.val]
  ELSE IF v.type = "str"
  THEN IF v.val \in Numerals
       THEN [exc |-> "none", val |-> ParseNumeral(v.val)]
       ELSE [exc |-> "ValueError", val |-> Zero]
  ELSE [exc |-> "TypeError", val |-> Zero]

Player_seekers(sk, player) == {id \in DOMAIN sk : sk[id].owner = player}

Raised(sk, exc) == [seekers |-> sk, exc |-> exc]

\* The body of process_ai_output's loop for one element of the output.
process_ai_seeker(player, sk, ai_seeker) ==
  IF ~ai_seeker.has_id THEN Raised(sk, "AttributeError")
  ELSE IF ai_seeker.id \notin Player_seekers(sk, player) THEN Raised(sk, "KeyError")
  ELSE IF ~ai_seeker.is_seeker THEN Raised(sk, "InvalidAiOutputError")
  ELSE IF ~ai_seeker.target.is_vector THEN Raised(sk, "InvalidAiOutputError")
  ELSE IF ~ai_seeker.magnet.is_magnet THEN Raised(sk, "InvalidAiOutputError")
  ELSE
    LET id == ai_seeker.id
        fx == py_float(ai_seeker.target.x)
        sk1 == [sk EXCEPT ![id].target.x = fx.val]
        fy == py_float(ai_seeker.target.y)
        sk2 == [sk1 EXCEPT ![id].target.y = fy.val]
        fs == py_float(ai_seeker.magnet.strength)
        set == Magnet_set_strength(sk2[id].magnet, fs.val)
        sk3 == [sk2 EXCEPT ![id].magnet = set.magnet]
    IN  IF fx.exc = "ValueError" THEN Raised(sk, "InvalidAiOutputError")
        ELSE IF fx.exc # "none" THEN Raised(sk, fx.exc)
        ELSE IF fy.exc = "ValueError" THEN Raised(sk1, "InvalidAiOutputError")
        ELSE IF fy.exc # "none" THEN Raised(sk1, fy.exc)
        ELSE IF fs.exc = "ValueError" THEN Raised(sk2, "InvalidAiOutputError")
        ELSE IF fs.exc # "none" THEN Raised(sk2, fs.exc)
        ELSE IF set.exc = "ValueError" THEN Raised(sk2, "InvalidAiOutputError")
        ELSE Raised(sk3, "none")

RECURSIVE process_ai_seekers(_, _, _)
process_ai_seekers(player, sk, items) ==
  IF items = <<>> THEN Raised(sk, "none")
  ELSE LET r == process_ai_seeker(player, sk, Head(items))
       IN  IF r.exc # "none" THEN r
           ELSE process_ai_seekers(player, r.seekers, Tail(items))

\* LocalPlayer.process_ai_output(ai_output): the seekers afterwards and the
\* exception that left the call ("none": it returned).
LocalPlayer_process_ai_output(player, sk, ai_output) ==
  IF ~ai_output.is_list THEN Raised(sk, "InvalidAiOutputError")
  ELSE IF Len(ai_output.items) # Cardinality(Player_seekers(sk, player))
  THEN Raised(sk, "InvalidAiOutputError")
  ELSE process_ai_seekers(player, sk, ai_output.items)

\* LocalPlayer.call_ai: what the decide function returned, or the
\* InvalidAiOutputError that wraps any exception it raised.
LocalPlayer_call_ai(decided) ==
  IF decided.raises THEN [exc |-> "InvalidAiOutputError", ai_output |-> decided]
  ELSE [exc |-> "none", ai_output |-> decided]

\* _ai_seekers, _ai_goals and _ai_players before the first poll: None.
NoAiState == [is_none |-> TRUE, seekers |-> <<>>, goals |-> <<>>, players |-> <<>>]

\* LocalPlayer.update_ai_state (with init_ai_state on the first call): the
\* player's own copies of the seekers, goals and players, refreshed.
LocalPlayer_update_ai_state(state, gs, sk, ps) ==
  LET base == IF state.is_none
              THEN [is_none |-> FALSE, seekers |-> sk, goals |-> gs, players |-> ps]
              ELSE state
  IN  [base EXCEPT
         !.goals = [i \in DOMAIN base.goals |->
                      IF i \in DOMAIN gs
                      THEN [base.goals[i] EXCEPT !.position = gs[i].position,
                                                 !.velocity = gs[i].velocity,
                                                 !.owner = gs[i].owner,
                                                 !.time_owned = gs[i].time_owned]
                      ELSE base.goals[i]],
         !.seekers = [id \in DOMAIN sk |->
                        [base.seekers[id] EXCEPT
                           !.position = sk[id].position,
                           !.velocity = sk[id].velocity,
                           !.target = sk[id].target,
                           !.disabled_counter = sk[id].disabled_counter,
                           !.magnet = sk[id].magnet]]]

\* LocalPlayer.poll_ai: the state afterwards; exc is the exception that escaped
\* poll_ai ("none": it returned), raised the one call_ai or process_ai_output
\* raised, logged whether the error was logged.
LocalPlayer_poll_ai(player, sk, decided) ==
  LET called == LocalPlayer_call_ai(decided)
      done == IF called.exc # "none" THEN Raised(sk, called.exc)
              ELSE LocalPlayer_process_ai_output(player, sk, called.ai_output)
      caught == done.exc = "InvalidAiOutputError"
  IN  [seekers |-> done.seekers,
       raised |-> done.exc,
       rejected |-> called.exc = "none" /\ done.exc # "none",
       logged |-> caught,
       exc |-> IF caught THEN "none" ELSE done.exc]

(***************************************************************************)
(* Movement, magnets, goals, camps                                         *)
(***************************************************************************)
\* Physical.move with the acceleration update_acceleration leaves and the
\* thrust of the body's class.
Physical_move(body, w, acceleration, thrust) ==
  LET slowed == Vector_rmul(RSub(One, body.friction), body.velocity)
      velocity == Vector_add(slowed, Vector_rmul(thrust, acceleration))
  IN  [body EXCEPT !.velocity = velocity,
                   !.acceleration = acceleration,
                   !.position = World_normalize_position(w, Vector_add(body.position, velocity))]

Seeker_thrust(s) ==
  RMul(s.base_thrust, IF Magnet_is_on(s.magnet) THEN s.magnet_slowdown ELSE One)

\* Seeker.update_acceleration: the acceleration it sets.
Seeker_update_acceleration_always_steers(s, w) ==
  World_torus_direction(w, s.position, s.target)

Seeker_update_acceleration(s, w) ==
  IF s.disabled_counter = 0
  THEN World_torus_direction(w, s.position, s.target)
  ELSE Vector(Zero, Zero)

Seeker_move(s, w) == Physical_move(s, w, Seeker_update_acceleration(s, w), Seeker_thrust(s))

World_diameter(w) == Vector_length(Vector(w.width, w.height))

\* bump(r) = exp(1 / (r^2 - 1)) for r < 1, else 0.  exp is irrational; the model
\* takes a step function with bump's support, sign and monotonicity, within
\* 0.15 of it.
bump(r) ==
  IF ~RLt(r, One) THEN Zero
  ELSE IF RLe(RMul(r, r), Rat(1, 4)) THEN Rat(1, 4)
  ELSE IF RLe(RMul(r, r), Rat(1, 2)) THEN Rat(1, 8)
  ELSE Rat(1, 16)

Seeker_magnetic_force(s, w, pos) ==
  LET torus_diff == World_torus_difference(w, s.position, pos)
      torus_diff_len == Vector_length(torus_diff)
      r == RDiv(torus_diff_len, World_diameter(w))
      direction == IF torus_diff_len # Zero THEN Vector_truediv(torus_diff, torus_diff_len)
                   ELSE Vector(Zero, Zero)
  IN  IF Seeker_is_disabled(s) THEN Vector(Zero, Zero)
      ELSE Vector_neg(Vector_rmul(RMul(s.magnet.strength, bump(RMul(r, Num(10)))), direction))

\* Goal.__init__ over Physical.__init__: owner = None, time_owned = 0.
Goal(scoring_time, base_thrust, position, velocity, mass, radius, friction) ==
  [owner |-> "None", time_owned |-> 0, position |-> position, velocity |-> velocity,
   acceleration |-> Vector(Zero, Zero), mass |-> mass, radius |-> radius,
   friction |-> friction, scoring_time |-> scoring_time, base_thrust |-> base_thrust]

Goal_thrust(g) == g.base_thrust
Goal_move(g, w) == Physical_move(g, w, g.acceleration, Goal_thrust(g))

Camp(owner, position, width, height) ==
  [owner |-> owner, position |-> position, width |-> width, height |-> height]

Camp_contains(camp, pos) ==
  LET delta == Vector_sub(camp.position, pos)
  IN  /\ RLt(RMul(Num(2), RAbs(delta.x)), camp.width)
      /\ RLt(RMul(Num(2), RAbs(delta.y)), camp.height)

\* Goal.camp_tick(camp): the goal afterwards and the value returned.
Goal_camp_tick_late(g, camp) ==
  LET g1 == IF Camp_contains(camp, g.position)
            THEN IF g.owner = camp.owner
                 THEN [g EXCEPT !.time_owned = g.time_owned + 1]
                 ELSE [g EXCEPT !.time_owned = 0, !.owner = camp.owner]
            ELSE g
  IN  [goal |-> g1, ret |-> g1.time_owned > g1.scoring_time]

Goal_camp_tick_counts_entry(g, camp) ==
  LET g1 == IF Camp_contains(camp, g.position)
            THEN IF g.owner = camp.owner
                 THEN [g EXCEPT !.time_owned = g.time_owned + 1]
                 ELSE [g EXCEPT !.time_owned = 1, !.owner = camp.owner]
            ELSE g
  IN  [goal |-> g1, ret |-> g1.time_owned >= g1.scoring_time]

Goal_camp_tick(g, camp) ==
  LET g1 == IF Camp_contains(camp, g.position)
            THEN IF g.owner = camp.owner
                 THEN [g EXCEPT !.time_owned = g.time_owned + 1]
                 ELSE [g EXCEPT !.time_owned = 0, !.owner = camp.owner]
            ELSE g
  IN  [goal |-> g1, ret |-> g1.time_owned >= g1.scoring_time]

\* World.generate_camps: one camp per player, evenly spaced along the height.
World_generate_camps(w, order, camp_width, camp_height) ==
  LET delta == RDiv(w.height, Num(Len(order)))
  IN  [i \in 1..Len(order) |->
         Camp(order[i],
              Vector(RDiv(w.width, Num(2)), RMul(delta, RSub(Num(i), Rat(1, 2)))),
              camp_width, camp_height)]

(***************************************************************************)
(* game_logic.tick, stage by stage                                         *)
(***************************************************************************)
\* "if s.disabled(): s.disabled_counter -= 1"
recover_unguarded(s) == [s EXCEPT !.disabled_counter = s.disabled_counter - 1]

recover(s) ==
  IF Seeker_is_disabled(s) THEN [s EXCEPT !.disabled_counter = s.disabled_counter - 1]
  ELSE s

\* move and recover seekers
tick_move_seekers(sk, w) == [id \in DOMAIN sk |-> recover(Seeker_move(sk[id], w))]

RECURSIVE sum_forces(_, _, _, _, _)
sum_forces(sk, order, k, w, pos) ==
  IF k > Len(order) THEN Vector(Zero, Zero)
  ELSE Vector_add(Seeker_magnetic_force(sk[order[k]], w, pos),
                  sum_forces(sk, order, k + 1, w, pos))

\* compute magnetic forces and move goals
tick_move_goals(gs, sk, order, w) ==
  [i \in DOMAIN gs |->
     Goal_move([gs[i] EXCEPT !.acceleration = sum_forces(sk, order, 1, w, gs[i].position)], w)]

\* handle seeker collisions: the pairs i < j in order, each on the seekers as
\* the earlier pairs left them; hit collects the seekers that collided.
\* Seeker.collision takes (self, other, world); the fourth argument tick
\* passes, min_dist, is the radius sum Physical.collision computes itself.
RECURSIVE tick_collisions(_, _, _, _, _, _)
tick_collisions(sk, hit, order, i, j, w) ==
  IF i > Len(order) THEN [seekers |-> sk, hit |-> hit]
  ELSE IF j > Len(order) THEN tick_collisions(sk, hit, order, i + 1, i + 2, w)
  ELSE
    LET s == sk[order[i]]
        t == sk[order[j]]
        d == World_torus_distance(w, t.position, s.position)
        min_dist == RAdd(s.radius, t.radius)
    IN  IF RLt(d, min_dist)
        THEN LET pair == Seeker_collision(s, t, w)
             IN  tick_collisions([sk EXCEPT ![order[i]] = pair[1], ![order[j]] = pair[2]],
                                 hit \cup {order[i], order[j]}, order, i, j + 1, w)
        ELSE tick_collisions(sk, hit, order, i, j + 1, w)

\* "for camp in camps: scored = g.camp_tick(camp)"
RECURSIVE camp_ticks(_, _, _, _)
camp_ticks(g, scored, cs, k) ==
  IF k > Len(cs) THEN [goal |-> g, scored |-> scored]
  ELSE LET r == Goal_camp_tick(g, cs[k])
       IN  camp_ticks(r.goal, r.ret, cs, k + 1)

\* ScoreAnimation(position, color): a new animation.
ScoreAnimation(position, color, duration) ==
  [position |-> position, color |-> color, age |-> 0, duration |-> duration]

goal_scored_after_respawn(player, goal_index, st, fresh, duration) ==
  [st EXCEPT !.players[player].score = st.players[player].score + 1,
             !.goals[goal_index] = fresh,
             !.animations.score =
                Append(st.animations.score,
                       ScoreAnimation(fresh.position, st.players[player].color, duration))]

\* goal_scored: the score, the goal list and the animations afterwards; fresh
\* is the new goal at world.random_position().
goal_scored(player, goal_index, st, fresh, duration) ==
  [st EXCEPT !.players[player].score = st.players[player].score + 1,
             !.goals[goal_index] = fresh,
             !.animations.score =
                Append(st.animations.score,
                       ScoreAnimation(st.goals[goal_index].position,
                                      st.players[player].color, duration))]

\* handle goals and scoring: st holds players, goals, animations and the log
\* of what camp_tick returned for each goal.
RECURSIVE tick_scoring(_, _, _, _, _, _)
tick_scoring(st, scored, cs, i, fresh, duration) ==
  IF i > Len(st.goals) THEN st
  ELSE
    LET r == camp_ticks(st.goals[i], scored, cs, 1)
        st1 == [st EXCEPT !.goals[i] = r.goal,
                          !.log = Append(st.log, [scored |-> r.scored, goal |-> r.goal])]
        st2 == IF r.scored THEN goal_scored(r.goal.owner, i, st1, fresh, duration) ELSE st1
    IN  tick_scoring(st2, r.scored, cs, i + 1, fresh, duration)

\* advance animations: "for (i, a) in enumerate(animation_list)", popping from
\* the list it iterates over.
RECURSIVE tick_animations(_, _)
tick_animations(list, i) ==
  IF i > Len(list) THEN list
  ELSE
    LET aged == [list EXCEPT ![i].age = list[i].age + 1]
    IN  IF aged[i].age > aged[i].duration
        THEN tick_animations(SubSeq(aged, 1, i - 1) \o SubSeq(aged, i + 1, Len(aged)), i + 1)
        ELSE tick_animations(aged, i + 1)

(***************************************************************************)
(* State                                                                   *)
(***************************************************************************)
VARIABLES
  world,       \* the World: [width, height]
  seekers,     \* seeker id -> the Seeker's fields
  goals,       \* the list of goals
  players,     \* player id -> the Player's fields
  animations,  \* animations["score"], a list
  ai_state,    \* player id -> the LocalPlayer's _ai_seekers, _ai_goals, _ai_players
  call,        \* the operation that ran last, its arguments and its result
  heap         \* the objects by address, where the model follows references

vars == <<world, seekers, goals, players, animations, ai_state, call, heap>>

(***************************************************************************)
(* The geometry functions applied to drawn arguments                       *)
(***************************************************************************)
MaxDim == 4

GeomWorlds == {World(Num(w), Num(h)) : w \in (MaxDim - 1)..MaxDim, h \in (MaxDim - 1)..MaxDim}

\* -2^-(Prec+2): a negative coordinate far smaller than the spacing of the
\* floats near the world's size (as -1e-18 is for doubles and a size of 100).
TinyNegative == Rat(-1, Pow2(Prec + 2))

WideCoords ==
  {Num(-(2 * MaxDim + 1)), Num(-1), TinyNegative, Zero, Rat(1, 2), Num(1),
   Num(MaxDim - 1), Num(3 * MaxDim + 2)}

WidePositions == {Vector(x, y) : x \in WideCoords, y \in WideCoords}

InWorld(w, pos) ==
  /\ RLe(Zero, pos.x) /\ RLt(pos.x, w.width)
  /\ RLe(Zero, pos.y) /\ RLt(pos.y, w.height)

GridPositions(w) == {Vec(i, j) : i \in 0..(w.width[1] - 1), j \in 0..(w.height[1] - 1)}

GeomInit ==
  /\ world \in GeomWorlds
  /\ \E left \in WidePositions \cup GridPositions(world), right \in GridPositions(world) :
       call = [op |-> "init", left |-> left, right |-> right]
  /\ seekers = <<>>
  /\ goals = <<>>
  /\ players = <<>>
  /\ animations = <<>>
  /\ ai_state = <<>>
  /\ heap = <<>>

TorusDifferenceCall ==
  /\ call.op = "init"
  /\ call' = [op |-> "torus_difference", left |-> call.left, right |-> call.right,
              ret |-> World_torus_difference(world, call.left, call.right)]
  /\ UNCHANGED <<world, seekers, goals, players, animations, ai_state, heap>>

NormalizePositionCall ==
  /\ call.op = "init"
  /\ call' = [op |-> "normalize_position", left |-> call.left, right |-> call.right,
              ret |-> World_normalize_position(world, call.left)]
  /\ UNCHANGED <<world, seekers, goals, players, animations, ai_state, heap>>

MaxCandidates == 3

\* The candidates of a scan from pos: the places of pos's row, each at a
\* rational distance from pos.
RowOf(w, pos) == {Vector(Num(x), pos.y) : x \in 0..(w.width[1] - 1)}

RECURSIVE ListsOf(_, _)
ListsOf(S, n) ==
  IF n = 0 THEN {<<>>}
  ELSE LET shorter == ListsOf(S, n - 1)
       IN  shorter \cup {Append(l, e) : l \in {x \in shorter : Len(x) = n - 1}, e \in S}

IndexOfNearestCall ==
  /\ call.op = "init"
  /\ call.left \in GridPositions(world)
  /\ call.right = Vec(0, 0)
  /\ \E positions \in ListsOf(RowOf(world, call.left), MaxCandidates) \ {<<>>} :
       call' = [op |-> "index_of_nearest", left |-> call.left, right |-> call.right,
                positions |-> positions,
                ret |-> World_index_of_nearest(world, call.left, positions)]
  /\ UNCHANGED <<world, seekers, goals, players, animations, ai_state, heap>>

GeomNext == TorusDifferenceCall \/ NormalizePositionCall \/ IndexOfNearestCall

SpecGeom == GeomInit /\ [][GeomNext]_vars

RMin(a, b) == IF RLt(a, b) THEN a ELSE b
Half(a) == RDiv(a, Num(2))
Sign(a) == IF a[1] > 0 THEN 1 ELSE IF a[1] < 0 THEN -1 ELSE 0
IsInteger(a) == a[2] = 1

\* C7: for positions a, b inside the world, torus_distance(a, b) is at most
\* sqrt((width/2)^2 + (height/2)^2), and each component of torus_difference
\* has magnitude at most half the corresponding world dimension.
C7_HalfDiagonal ==
  (call.op = "torus_difference" /\ InWorld(world, call.left) /\ InWorld(world, call.right))
  => /\ RLe(Vector_squared_length(call.ret),
            Vector_squared_length(Vector(Half(world.width), Half(world.height))))
     /\ RLe(RAbs(call.ret.x), Half(world.width))
     /\ RLe(RAbs(call.ret.y), Half(world.height))

\* The component of the shortest torus vector from a to b on an axis of length l:
\* magnitude min(|a-b|, l-|a-b|), pointing from a to the nearest image of b.
ShortestDelta(l, a, b) ==
  LET delta == RAbs(RSub(a, b))
  IN  IF RLe(delta, RSub(l, delta)) THEN RSub(b, a)
      ELSE RMul(Num(Sign(RSub(a, b))), RSub(l, delta))

\* C8: on each axis torus_difference(a, b) is the shorter of the direct and the
\* wraparound delta: magnitude min(|a-b|, L-|a-b|), directed from a toward the
\* nearest torus image of b.
C8_ShorterDelta ==
  (call.op = "torus_difference" /\ InWorld(world, call.left) /\ InWorld(world, call.right))
  => /\ RAbs(call.ret.x) = RMin(RAbs(RSub(call.left.x, call.right.x)),
                                RSub(world.width, RAbs(RSub(call.left.x, call.right.x))))
     /\ RAbs(call.ret.y) = RMin(RAbs(RSub(call.left.y, call.right.y)),
                                RSub(world.height, RAbs(RSub(call.left.y, call.right.y))))
     /\ Sign(call.ret.x) = Sign(ShortestDelta(world.width, call.left.x, call.right.x))
     /\ Sign(call.ret.y) = Sign(ShortestDelta(world.height, call.left.y, call.right.y))

\* C9: for every input position normalize_position leaves 0 <= x < width and
\* 0 <= y < height, congruent to the input modulo (width, height).
C9_NormalizedInWorld ==
  call.op = "normalize_position"
  => /\ InWorld(world, call.ret)
     /\ IsInteger(RDiv(RSub(call.ret.x, call.left.x), world.width))
     /\ IsInteger(RDiv(RSub(call.ret.y, call.left.y), world.height))

\* C12: on a non-empty list index_of_nearest returns the smallest index whose
\* torus_distance from pos is minimal over the list (indices from 0).
C12_FirstMinimum ==
  call.op = "index_of_nearest" =>
    LET dist(i) == World_torus_distance(world, call.left, call.positions[i + 1])
        last == Len(call.positions) - 1
    IN  /\ call.ret \in 0..last
        /\ \A i \in 0..last : RLe(dist(call.ret), dist(i))
        /\ \A i \in 0..(call.ret - 1) : RLt(dist(call.ret), dist(i))

\* The example's shape: a farther candidate first, then two at the same least
\* distance; the first of the two is returned.
C12_Witness ==
  /\ call.op = "index_of_nearest"
  /\ Len(call.positions) = 3
  /\ call.positions[2] = call.positions[3]
  /\ RLt(World_torus_distance(world, call.left, call.positions[2]),
         World_torus_distance(world, call.left, call.positions[1]))
  /\ call.ret = 1


(***************************************************************************)
(* One collision of two seekers with drawn fields                          *)
(***************************************************************************)
CollDim == 12
DisabledTime == 2

CollWorld == World(Num(CollDim), Num(CollDim))

\* The other body's place relative to self: at the same place, beside it along
\* an axis, across the world's edge, and along a 3-4-5 diagonal.
CollOffsets == {<<0, 0>>, <<1, 0>>, <<0, 2>>, <<-2, 0>>, <<3, 4>>, <<CollDim - 1, 0>>}
CollVelocities == {Vec(0, 0), Vec(1, 0), Vec(-1, 0), Vec(0, 1)}
CollMasses == {Num(1), Num(2)}
CollRadii == {Rat(1, 2), Num(2)}
CollMagnets == {Zero, One}
CollCounters == {0, 1}

CollSeeker(position, velocity, mass, radius, strength, counter) ==
  [Seeker("p", DisabledTime, One, One, position, velocity, mass, radius, Zero)
     EXCEPT !.magnet = Magnet(strength), !.disabled_counter = counter]

CollInit ==
  /\ world = CollWorld
  /\ \E off \in CollOffsets, v1 \in CollVelocities, v2 \in CollVelocities,
        m1 \in CollMasses, m2 \in CollMasses, r \in CollRadii,
        g1 \in CollMagnets, g2 \in CollMagnets, c1 \in CollCounters, c2 \in CollCounters :
       seekers = <<CollSeeker(Vec(1, 1), v1, m1, r, g1, c1),
                   CollSeeker(World_normalize_position(CollWorld, Vec(1 + off[1], 1 + off[2])),
                              v2, m2, r, g2, c2)>>
  /\ HasLength(World_torus_difference(world, seekers[1].position, seekers[2].position))
  /\ call = [op |-> "init"]
  /\ goals = <<>>
  /\ players = <<>>
  /\ animations = <<>>
  /\ ai_state = <<>>
  /\ heap = <<>>

PhysicalCollisionCall ==
  /\ call.op = "init"
  /\ seekers' = Physical_collision(seekers[1], seekers[2], world)
  /\ call' = [op |-> "Physical.collision", before |-> seekers]
  /\ UNCHANGED <<world, goals, players, animations, ai_state, heap>>

SeekerCollisionCall ==
  /\ call.op = "init"
  /\ seekers' = Seeker_collision(seekers[1], seekers[2], world)
  /\ call' = [op |-> "Seeker.collision", before |-> seekers]
  /\ UNCHANGED <<world, goals, players, animations, ai_state, heap>>

CollNext == PhysicalCollisionCall \/ SeekerCollisionCall

SpecColl == CollInit /\ [][CollNext]_vars

Collided == call.op \in {"Physical.collision", "Seeker.collision"}
Other(i) == 3 - i

\* C1 as stated: with no effective magnet on either side both seekers are
\* disabled; with at least one effective magnet only the seeker(s) without an
\* effective magnet are disabled, and a seeker whose magnet is effective keeps
\* its disabled_counter.
C1_EffectiveMagnetImmune ==
  call.op = "Seeker.collision" =>
    \A i \in 1..2 :
      LET me == call.before[i]
          it == call.before[Other(i)]
      IN  /\ (~Seeker_magnet_effective(me) /\ ~Seeker_magnet_effective(it))
               => seekers[i].disabled_counter = me.disabled_time
          /\ (Seeker_magnet_effective(me) \/ Seeker_magnet_effective(it))
               => IF Seeker_magnet_effective(me)
                  THEN seekers[i].disabled_counter = me.disabled_counter
                  ELSE seekers[i].disabled_counter = me.disabled_time

\* C1 amended: with no effective magnet on either side both seekers are
\* disabled; with at least one effective magnet exactly the seeker(s) whose
\* magnet is effective are disabled, and a seeker without an effective magnet
\* keeps its disabled_counter.
C1_EffectiveMagnetDisabled ==
  call.op = "Seeker.collision" =>
    \A i \in 1..2 :
      LET me == call.before[i]
          it == call.before[Other(i)]
      IN  /\ (~Seeker_magnet_effective(me) /\ ~Seeker_magnet_effective(it))
               => seekers[i].disabled_counter = me.disabled_time
          /\ (Seeker_magnet_effective(me) \/ Seeker_magnet_effective(it))
               => IF Seeker_magnet_effective(me)
                  THEN seekers[i].disabled_counter = me.disabled_time
                  ELSE seekers[i].disabled_counter = me.disabled_counter

\* A collision of a seeker with an effective magnet and a disabled one: the first
\* is disabled by it, the second keeps its counter.
C1_Witness ==
  /\ call.op = "Seeker.collision"
  /\ Seeker_magnet_effective(call.before[1])
  /\ ~Seeker_magnet_effective(call.before[2])
  /\ call.before[2].disabled_counter = 1
  /\ seekers[1].disabled_counter = DisabledTime
  /\ seekers[2].disabled_counter = 1

Momentum(pair) ==
  Vector_add(Vector_rmul(pair[1].mass, pair[1].velocity),
             Vector_rmul(pair[2].mass, pair[2].velocity))

\* d . dn of the collision's arguments, and the sum of the radii.
ConnectingDistance(pair) ==
  LET d == World_torus_difference(world, pair[1].position, pair[2].position)
  IN  Vector_dot(d, Vector_normalized(d))
RadiusSum(pair) == RAdd(pair[1].radius, pair[2].radius)
ApproachSpeed(pair) ==
  LET d == World_torus_difference(world, pair[1].position, pair[2].position)
  IN  Vector_dot(Vector_sub(pair[2].velocity, pair[1].velocity), Vector_normalized(d))

\* C10: when no positional correction triggers (d . dn >= radius sum),
\* mass_self * velocity_self + mass_other * velocity_other is the same before
\* and after the collision, whether or not the impulse branch is taken.
C10_MomentumConserved ==
  (Collided /\ RLe(RadiusSum(call.before), ConnectingDistance(call.before)))
  => Momentum(seekers) = Momentum(call.before)

\* Two bodies of different mass, apart by at least the radius sum, approaching:
\* the impulse branch has changed both velocities.
C10_Witness ==
  /\ call.op = "Physical.collision"
  /\ RLe(RadiusSum(call.before), ConnectingDistance(call.before))
  /\ RLt(ApproachSpeed(call.before), Zero)
  /\ call.before[1].mass # call.before[2].mass
  /\ seekers[1].velocity # call.before[1].velocity
  /\ seekers[2].velocity # call.before[2].velocity

\* dn of the collision's arguments, and whether a velocity lies along it.
ConnectingAxis(pair) ==
  Vector_normalized(World_torus_difference(world, pair[1].position, pair[2].position))
Along(v, axis) == RSub(RMul(v.x, axis.y), RMul(v.y, axis.x)) = Zero

\* C11: two bodies of equal mass that approach each other along the axis that
\* connects them leave Physical.collision with their velocities exchanged.
C11_VelocitiesExchanged ==
  (/\ Collided
   /\ call.before[1].mass = call.before[2].mass
   /\ ConnectingAxis(call.before) # Vector(Zero, Zero)
   /\ Along(call.before[1].velocity, ConnectingAxis(call.before))
   /\ Along(call.before[2].velocity, ConnectingAxis(call.before))
   /\ RLt(ApproachSpeed(call.before), Zero))
  => /\ seekers[1].velocity = call.before[2].velocity
     /\ seekers[2].velocity = call.before[1].velocity

\* The example's case: side by side on the x axis with velocities (1, 0) and
\* (-1, 0), equal masses; afterwards (-1, 0) and (1, 0).
C11_Witness ==
  /\ call.op = "Physical.collision"
  /\ call.before[1].mass = call.before[2].mass
  /\ call.before[2].position = Vector_add(call.before[1].position, Vec(1, 0))
  /\ call.before[1].velocity = Vec(1, 0)
  /\ call.before[2].velocity = Vec(-1, 0)
  /\ seekers[1].velocity = Vec(-1, 0)
  /\ seekers[2].velocity = Vec(1, 0)


\* The distance of two coordinates on a circle of length l, and the square of
\* the distance of two positions on the torus.
RMod(a, l) == RSub(a, RMul(Num(RFloor(RDiv(a, l))), l))
Gap(l, a, b) == RMin(RMod(RSub(a, b), l), RMod(RSub(b, a), l))
SquaredGap(w, left, right) ==
  RAdd(RMul(Gap(w.width, left.x, right.x), Gap(w.width, left.x, right.x)),
       RMul(Gap(w.height, left.y, right.y), Gap(w.height, left.y, right.y)))
Overlap(pair) ==
  RLt(SquaredGap(world, pair[1].position, pair[2].position),
      RMul(RadiusSum(pair), RadiusSum(pair)))

\* C18: two bodies nearer to each other than the sum of their radii, two bodies
\* at one position included, are at least the sum of their radii apart after
\* one Physical.collision.
C18_NoOverlapAfterwards ==
  (Collided /\ Overlap(call.before)) => ~Overlap(seekers)


(***************************************************************************)
(* LocalPlayer.poll_ai on drawn AI outputs                                 *)
(***************************************************************************)
AiWorld == World(Num(MaxDim), Num(MaxDim))
AiPlayers == {"p1", "p2"}
AiOwner == [s1 |-> "p1", s2 |-> "p1", s3 |-> "p2"]

\* A well-formed element of an AI output.
AiSeeker(id, x, y, strength) ==
  [has_id |-> TRUE, id |-> id, is_seeker |-> TRUE,
   target |-> [is_vector |-> TRUE, x |-> x, y |-> y],
   magnet |-> [is_magnet |-> TRUE, strength |-> strength]]

GoodAiSeekers ==
  {AiSeeker(id, PyFloat(Num(2)), PyFloat(Num(3)), PyFloat(One)) : id \in DOMAIN AiOwner}
  \cup {AiSeeker("s1", PyStr("4"), PyFloat(Zero), PyStr("-8.0"))}

BaseAiSeeker == AiSeeker("s2", PyFloat(Num(2)), PyFloat(Num(3)), PyFloat(One))

BadAiSeekers ==
  {[BaseAiSeeker EXCEPT !.has_id = FALSE, !.is_seeker = FALSE],
   [BaseAiSeeker EXCEPT !.is_seeker = FALSE],
   [BaseAiSeeker EXCEPT !.target.is_vector = FALSE],
   [BaseAiSeeker EXCEPT !.magnet.is_magnet = FALSE],
   [BaseAiSeeker EXCEPT !.target.x = PyStr("north")],
   [BaseAiSeeker EXCEPT !.target.y = PyStr("north")],
   [BaseAiSeeker EXCEPT !.target.x = PyNone],
   [BaseAiSeeker EXCEPT !.magnet.strength = PyFloat(Num(5))],
   [BaseAiSeeker EXCEPT !.magnet.strength = PyFloat(Num(-9))],
   [BaseAiSeeker EXCEPT !.magnet.strength = PyStr("on")],
   [BaseAiSeeker EXCEPT !.magnet.strength = PyNone]}

AiElements == GoodAiSeekers \cup BadAiSeekers

\* The lists a decide function returns: every list of at most two elements, and
\* the longer lists of well-formed elements.
MaxOutput == 3
MaxPolls == 2

AiLists ==
  UNION {[1..n -> AiElements] : n \in 0..2}
  \cup UNION {[1..n -> GoodAiSeekers] : n \in 3..MaxOutput}

\* What the decide function does: raise, return something that is no list, or
\* return a list.
Decisions ==
  {[raises |-> TRUE, is_list |-> FALSE, items |-> <<>>],
   [raises |-> FALSE, is_list |-> FALSE, items |-> <<>>]}
  \cup {[raises |-> FALSE, is_list |-> TRUE, items |-> items] : items \in AiLists}

AiInit ==
  /\ world = AiWorld
  /\ seekers = [id \in DOMAIN AiOwner |->
                  Seeker(AiOwner[id], DisabledTime, One, One, Vec(1, 1), Vec(0, 0),
                         One, One, Zero)]
  /\ goals = <<>>
  /\ players = [p \in AiPlayers |-> [score |-> 0]]
  /\ animations = <<>>
  /\ ai_state = [p \in AiPlayers |-> NoAiState]
  /\ call = [op |-> "init", polls |-> 0]
  /\ heap = <<>>

\* The strengths an output holds for the seeker id.
AskedStrengths(items, id) ==
  {items[k].magnet.strength : k \in {k \in DOMAIN items : items[k].has_id /\ items[k].id = id}}

\* poll_ai of a player whose decide function does what decided says.
PollAiStep(player, decided) ==
  LET r == LocalPlayer_poll_ai(player, seekers, decided)
  IN  /\ call.polls < MaxPolls
      /\ ai_state' = [ai_state EXCEPT ![player] =
                        LocalPlayer_update_ai_state(ai_state[player], goals, seekers, players)]
      /\ seekers' = r.seekers
      /\ call' = [op |-> "poll_ai", polls |-> call.polls + 1,
                  player |-> player, before |-> seekers,
                  raised |-> r.raised, rejected |-> r.rejected,
                  logged |-> r.logged, exc |-> r.exc,
                  asked |-> [id \in DOMAIN seekers |-> AskedStrengths(decided.items, id)]]
      /\ UNCHANGED <<world, goals, players, animations, heap>>

PollAi == \E player \in AiPlayers, decided \in Decisions : PollAiStep(player, decided)

AiNext == PollAi

SpecAI == AiInit /\ [][AiNext]_vars

(***************************************************************************)
(* SpecMagnet: the strength of the magnets, set through the setter and     *)
(* through AI outputs that ask a strength for each seeker                  *)
(***************************************************************************)
\* The values a caller hands to the strength setter; set_repulsive,
\* set_attractive and disable hand it -8, 1 and 0.
SetterValues == {Num(-9), Num(-8), Zero, Rat(1, 2), One, Num(5)}

\* seeker.magnet.strength = value
MagnetSetStrength ==
  \E id \in DOMAIN seekers, value \in SetterValues :
    LET r == Magnet_set_strength(seekers[id].magnet, value)
    IN  /\ call.polls < MaxPolls
        /\ seekers' = [seekers EXCEPT ![id].magnet = r.magnet]
        /\ call' = [op |-> "set_strength", polls |-> call.polls + 1, id |-> id,
                    value |-> value, before |-> seekers, exc |-> r.exc]
        /\ UNCHANGED <<world, goals, players, animations, ai_state, heap>>

\* The strengths an AI output asks for.
AskedValues == {PyFloat(Num(-9)), PyFloat(Num(-8)), PyFloat(Rat(1, 2)), PyFloat(Num(5)),
                PyStr("-8.0")}

Asking(id) == {AiSeeker(id, PyFloat(Num(2)), PyFloat(Num(3)), v) : v \in AskedValues}

\* The outputs: a strength for each seeker of a player, or for p1 a second
\* element whose magnet is no Magnet.
StrengthLists ==
  {<<a, b>> : a \in Asking("s1"),
              b \in Asking("s2") \cup {[BaseAiSeeker EXCEPT !.magnet.is_magnet = FALSE]}}
  \cup {<<c>> : c \in Asking("s3")}

StrengthDecisions == {[raises |-> FALSE, is_list |-> TRUE, items |-> items] : items \in StrengthLists}

PollAiStrengths ==
  \E player \in AiPlayers, decided \in StrengthDecisions : PollAiStep(player, decided)

MagnetNext == PollAiStrengths \/ MagnetSetStrength

SpecMagnet == AiInit /\ [][MagnetNext]_vars

\* C2: when process_ai_output rejects an AI output, every seeker of the player
\* has the target and the magnet strength it had before the call.
C2_RejectedOutputChangesNothing ==
  (call.op = "poll_ai" /\ call.rejected) =>
    \A id \in Player_seekers(seekers, call.player) :
      /\ seekers[id].target = call.before[id].target
      /\ seekers[id].magnet.strength = call.before[id].magnet.strength

\* C3: no exception escapes poll_ai: every error of the decide function or of
\* the validation of its output is logged and poll_ai returns.
C3_PollAiNeverRaises ==
  call.op = "poll_ai" =>
    /\ call.exc = "none"
    /\ (call.raised # "none" => call.logged)

InRange(value) == RLe(Num(-8), value) /\ RLe(value, One)

\* C17: every live seeker's magnet strength lies in [-8, 1] in every state; the
\* setter stores a value in [-8, 1] as it is and rejects any other with a
\* ValueError, leaving the strength as it was; a strength that an AI output
\* changes becomes a value the output holds for that seeker, never a clamped
\* one.
C17_InRangeNeverClamped ==
  /\ \A id \in DOMAIN seekers : InRange(seekers[id].magnet.strength)
  /\ call.op = "set_strength" =>
       /\ \A id \in DOMAIN seekers \ {call.id} : seekers[id] = call.before[id]
       /\ IF InRange(call.value)
          THEN call.exc = "none" /\ seekers[call.id].magnet.strength = call.value
          ELSE /\ call.exc = "ValueError"
               /\ seekers[call.id].magnet.strength = call.before[call.id].magnet.strength
  /\ call.op = "poll_ai" =>
       \A id \in DOMAIN seekers :
         seekers[id].magnet.strength # call.before[id].magnet.strength
           => \E v \in call.asked[id] :
                /\ py_float(v).exc = "none"
                /\ py_float(v).val = seekers[id].magnet.strength

\* The setter has stored 1/2 in s2's magnet, and then an AI output that asks 5
\* for s2 has been rejected and logged, s2's strength still 1/2.
C17_Witness ==
  /\ call.op = "poll_ai"
  /\ call.asked["s2"] = {PyFloat(Num(5))}
  /\ call.rejected
  /\ call.logged
  /\ call.before["s2"].magnet.strength = Rat(1, 2)
  /\ seekers["s2"].magnet.strength = Rat(1, 2)

(***************************************************************************)
(* The game: every player's AI is polled in turn, then tick runs           *)
(***************************************************************************)
MaxTicks == 4
ScoringTime == 2
AnimationDuration == 1

\* A world whose diagonal is rational (12, 16, 20).  All bodies start on the
\* column x = width / 2, which runs through every camp, and every target is on
\* it: differences between positions are parallel to the y axis.
GameWorld == World(Num(3 * MaxDim), Num(4 * MaxDim))
GameOrder == <<"p1", "p2">>
GameSeekers == <<"s1", "s2">>
GameOwner == [s1 |-> "p1", s2 |-> "p2"]
GameCamps == World_generate_camps(GameWorld, GameOrder, Num(MaxDim), Num(MaxDim))
Column(y) == Vector(RDiv(GameWorld.width, Num(2)), y)

SeekerFriction == Rat(1, 2)
SeekerThrust == One
MagnetSlowdown == Rat(1, 2)
GoalFriction == Rat(1, 2)
GoalThrust == Rat(1, 2)

GameSeeker(owner, position) ==
  Seeker(owner, DisabledTime, MagnetSlowdown, SeekerThrust, position, Vec(0, 0),
         One, One, SeekerFriction)

GameGoal(position) ==
  Goal(ScoringTime, GoalThrust, position, Vec(0, 0), One, One, GoalFriction)

\* world.random_position() for the seekers and the goal, on the column: the
\* seekers at one place, overlapping, or apart; the goal in a camp or between
\* the camps.
SeekerYs == {Num(MaxDim), Num(MaxDim + 1), Rat(1, 2)}
GoalYs == {Num(MaxDim - 1), Num(2 * MaxDim)}

GameInit ==
  /\ world = GameWorld
  /\ \E y \in SeekerYs :
       seekers = [id \in DOMAIN GameOwner |->
                    GameSeeker(GameOwner[id], Column(IF id = "s1" THEN Num(MaxDim) ELSE y))]
  /\ \E y \in GoalYs : goals = <<GameGoal(Column(y))>>
  /\ players = [p \in {"p1", "p2"} |-> [score |-> 0, color |-> p]]
  /\ animations = [score |-> <<>>]
  /\ ai_state = [p \in {"p1", "p2"} |-> NoAiState]
  /\ call = [op |-> "init", ticks |-> 0, turn |-> 1, since |-> [i \in DOMAIN goals |-> <<>>]]
  /\ heap = <<>>

\* What a decide function that keeps to the contract returns: the player's
\* seeker as it is, or with a new target and magnet strength.
Intents ==
  [p1 |-> {[target |-> Column(Num(3 * MaxDim)), strength |-> One],
           [target |-> Column(Num(MaxDim - 1)), strength |-> Num(-8)]},
   p2 |-> {[target |-> Column(Num(MaxDim)), strength |-> Num(-8)]}]

GameDecisions(player) ==
  LET id == CHOOSE i \in DOMAIN GameOwner : GameOwner[i] = player
  IN  {[raises |-> FALSE, is_list |-> TRUE,
        items |-> <<AiSeeker(id, PyFloat(i.target.x), PyFloat(i.target.y), PyFloat(i.strength))>>] :
         i \in Intents[player]
               \cup {[target |-> seekers[id].target, strength |-> seekers[id].magnet.strength]}}

GamePollAi ==
  /\ call.turn <= Len(GameOrder)
  /\ call.ticks < MaxTicks
  /\ \E decided \in GameDecisions(GameOrder[call.turn]) :
       LET player == GameOrder[call.turn]
           r == LocalPlayer_poll_ai(player, seekers, decided)
       IN  /\ ai_state' = [ai_state EXCEPT ![player] =
                             LocalPlayer_update_ai_state(ai_state[player], goals, seekers, players)]
           /\ seekers' = r.seekers
           /\ call' = [op |-> "poll_ai", ticks |-> call.ticks, turn |-> call.turn + 1,
                       player |-> player, raised |-> r.raised, rejected |-> r.rejected,
                       logged |-> r.logged, exc |-> r.exc, since |-> call.since]
           /\ UNCHANGED <<world, goals, players, animations, heap>>

\* The owners of the camps a position is inside.
Camps_containing(pos) == {GameCamps[k].owner : k \in {k \in DOMAIN GameCamps : Camp_contains(GameCamps[k], pos)}}

\* tick(players, camps, goals, animations, world); trail and since keep, for the
\* goal at each index, the camps it was inside at each tick since it appeared.
\* The end of tick: what the stages computed becomes the state; the record of
\* the call keeps it for the properties.
tick_return(moved, pushed, collided, st) ==
  /\ seekers' = collided.seekers
  /\ goals' = st.goals
  /\ players' = st.players
  /\ animations' = [st.animations EXCEPT !.score = tick_animations(st.animations.score, 1)]
  /\ call' = [op |-> "tick", ticks |-> call.ticks + 1, turn |-> 1,
              before |-> seekers, moved |-> moved, hit |-> collided.hit,
              goals_before |-> goals, log |-> st.log,
              players_before |-> players, recorded_before |-> animations.score,
              recorded |-> st.animations.score,
              trail |-> [i \in DOMAIN pushed |->
                           Append(call.since[i], Camps_containing(pushed[i].position))],
              since |-> [i \in DOMAIN pushed |->
                           IF st.log[i].scored THEN <<>>
                           ELSE Append(call.since[i], Camps_containing(pushed[i].position))]]
  /\ UNCHANGED <<world, ai_state, heap>>

\* tick after the goals have moved: the collisions of the seekers, then scoring
\* with a new goal at fresh.
tick_from_goals(moved, pushed, fresh) ==
  tick_return(moved, pushed, tick_collisions(moved, {}, GameSeekers, 1, 2, world),
              tick_scoring([players |-> players, goals |-> pushed,
                            animations |-> animations, log |-> <<>>],
                           FALSE, GameCamps, 1, fresh, AnimationDuration))

\* tick after the seekers have moved.
tick_from_seekers(moved, fresh) ==
  tick_from_goals(moved, tick_move_goals(goals, moved, GameSeekers, world), fresh)

Tick ==
  /\ call.turn > Len(GameOrder)
  /\ call.ticks < MaxTicks
  /\ \E y \in GoalYs :
       tick_from_seekers(tick_move_seekers(seekers, world), GameGoal(Column(y)))

GameNext == GamePollAi \/ Tick

Spec == GameInit /\ [][GameNext]_vars

Ticked == call.op = "tick"
CampOf(pos) == {k \in DOMAIN GameCamps : Camp_contains(GameCamps[k], pos)}

\* C4: in every tick camp_tick's last return for a goal is true exactly when the
\* goal's time_owned has reached scoring_time, which it never exceeds and never
\* holds at the start of a tick; a goal that the tick finds inside the camp of
\* the owner it already has gains exactly one tick of time_owned, so camp_tick
\* returns true first on the tick where time_owned reaches scoring_time and
\* false on every earlier tick.
C4_ScoredWhenTimeReached ==
  Ticked =>
    \A i \in DOMAIN call.log :
      LET g == call.log[i].goal
          b == call.goals_before[i]
      IN  /\ call.log[i].scored <=> g.time_owned = g.scoring_time
          /\ g.time_owned <= g.scoring_time
          /\ b.time_owned < b.scoring_time
          /\ (\E k \in CampOf(g.position) : GameCamps[k].owner = b.owner)
               => g.time_owned = b.time_owned + 1

\* A goal scores on a tick that it started one short of scoring_time, inside the
\* camp of its owner.
C4_Witness ==
  /\ Ticked
  /\ call.log[1].scored
  /\ call.log[1].goal.time_owned = ScoringTime
  /\ call.goals_before[1].time_owned = ScoringTime - 1
  /\ call.goals_before[1].owner = call.log[1].goal.owner
  /\ players[call.log[1].goal.owner].score > 0

ZeroVector == Vector(Zero, Zero)

ScoredEntries == SelectSeq(call.log, LAMBDA e : e.scored)
Captures(p) == {i \in DOMAIN call.log : call.log[i].scored /\ call.log[i].goal.owner = p}

Last(trail, n) == SubSeq(trail, Len(trail) - n + 1, Len(trail))

\* C16 as stated: a goal is captured for a player in a tick only if it was inside
\* that player's camp in that tick and in each of the scoring_time ticks right
\* before it.
C16_ContinuousResidence ==
  Ticked =>
    \A i \in DOMAIN call.log :
      call.log[i].scored =>
        /\ Len(call.trail[i]) >= ScoringTime + 1
        /\ \A k \in 1..(ScoringTime + 1) :
             call.log[i].goal.owner \in Last(call.trail[i], ScoringTime + 1)[k]

\* The ticks of a trail spent inside the camp of owner, counted back from its
\* end to the last tick spent inside another camp.
RECURSIVE TicksInCamp(_, _)
TicksInCamp(trail, owner) ==
  IF trail = <<>> THEN 0
  ELSE LET here == trail[Len(trail)]
           rest == SubSeq(trail, 1, Len(trail) - 1)
       IN  IF here = {} THEN TicksInCamp(rest, owner)
           ELSE IF owner \in here THEN 1 + TicksInCamp(rest, owner)
           ELSE 0

\* C16 amended: a goal is captured for a player in a tick only if it is inside
\* that player's camp in that tick and has been inside it in scoring_time + 1
\* ticks, this one included, since it appeared or was last inside another
\* camp; ticks spent inside no camp in between neither count nor reset the
\* count.
C16_AccumulatedResidence ==
  Ticked =>
    \A i \in DOMAIN call.log :
      call.log[i].scored =>
        /\ call.log[i].goal.owner \in call.trail[i][Len(call.trail[i])]
        /\ TicksInCamp(call.trail[i], call.log[i].goal.owner) = ScoringTime + 1

\* A capture after a tick outside every camp.
C16_Witness ==
  /\ Ticked
  /\ call.log[1].scored
  /\ \E k \in DOMAIN call.trail[1] : call.trail[1][k] = {}

\* C19: at the end of every tick the position of every seeker and of every goal
\* is inside the world, 0 <= x < width and 0 <= y < height.
C19_PositionsInWorld ==
  Ticked =>
    /\ \A id \in DOMAIN seekers : InWorld(world, seekers[id].position)
    /\ \A i \in DOMAIN goals : InWorld(world, goals[i].position)

(***************************************************************************)
(* The animation stage of tick on drawn animation lists                    *)
(***************************************************************************)
MaxAnimations == 3
MaxDuration == 2

\* Animations as a tick can find them: no older than their duration.
Animations ==
  {a \in [position : {Vec(0, 0)}, color : {"p1"},
          age : 0..MaxDuration, duration : 1..MaxDuration] : a.age <= a.duration}

AnimInit ==
  /\ \E list \in ListsOf(Animations, MaxAnimations) : animations = [score |-> list]
  /\ call = [op |-> "init"]
  /\ world = <<>>
  /\ seekers = <<>>
  /\ goals = <<>>
  /\ players = <<>>
  /\ ai_state = <<>>
  /\ heap = <<>>

\* "for _, animation_list in animations.items(): ..."
AdvanceAnimations ==
  /\ call.op = "init"
  /\ animations' = [k \in DOMAIN animations |-> tick_animations(animations[k], 1)]
  /\ call' = [op |-> "advance", before |-> animations]
  /\ UNCHANGED <<world, seekers, goals, players, ai_state, heap>>

AnimNext == AdvanceAnimations

SpecAnim == AnimInit /\ [][AnimNext]_vars

Older(a) == [a EXCEPT !.age = a.age + 1]

\* C14: the stage adds 1 to the age of every animation and removes those whose
\* age then exceeds their duration: what remains is the list it started with,
\* each animation one tick older, without the expired ones.
C14_AllAgedExpiredRemoved ==
  call.op = "advance" =>
    animations.score =
      SelectSeq([i \in DOMAIN call.before.score |-> Older(call.before.score[i])],
                LAMBDA a : a.age <= a.duration)

(***************************************************************************)
(* Objects and references: the AI state of a LocalPlayer                   *)
(*                                                                         *)
(* heap.obj maps an address to an object: its class (kind) and its         *)
(* attributes (at), each a number or a reference to an address; 0 is None. *)
(* A dict or list is an object whose attributes are its keys.  heap.top is *)
(* the highest address in use.                                             *)
(***************************************************************************)
Ref(a) == [is_ref |-> TRUE, v |-> a]
Val(n) == [is_ref |-> FALSE, v |-> n]
None == Ref(0)

Obj(kind, at) == [kind |-> kind, at |-> at]
Get(h, a, field) == h.obj[a].at[field].v
Put(h, a, field, value) == [h EXCEPT !.obj[a].at = (field :> value) @@ @]

\* A constructor call: the heap with the new object, which is at Fresh(h).
Fresh(h) == h.top + 1
New(h, kind, at) == [obj |-> (Fresh(h) :> Obj(kind, at)) @@ h.obj, top |-> Fresh(h)]

Targets(h, a) ==
  {h.obj[a].at[f].v : f \in {f \in DOMAIN h.obj[a].at : h.obj[a].at[f].is_ref}} \ {0}

\* The objects that can be reached from roots by following references.
RECURSIVE Reach(_, _)
Reach(h, roots) ==
  LET next == roots \cup UNION {Targets(h, a) : a \in roots}
  IN  IF next = roots THEN roots ELSE Reach(h, next)

\* Where the copy of the object at a is put.
Copied(h, a) == a + h.top

\* copy.copy(a): one new object with a's attributes, at Copied(h, a).
copy_copy(h, a) ==
  [obj |-> ((a + h.top) :> h.obj[a]) @@ h.obj, top |-> 2 * h.top]

\* copy.deepcopy(a): a new object for every object reachable from a, the copy
\* of the object at r being at r + h.top; the copy of a is at Copied(h, a).
copy_deepcopy(h, a) ==
  LET moved(value) == IF value.is_ref /\ value.v # 0 THEN Ref(value.v + h.top) ELSE value
      copies == [r \in {x + h.top : x \in Reach(h, {a})} |->
                   Obj(h.obj[r - h.top].kind,
                       [f \in DOMAIN h.obj[r - h.top].at |-> moved(h.obj[r - h.top].at[f])])]
  IN  [obj |-> copies @@ h.obj, top |-> 2 * h.top]

\* Vector.copy(): Vector(self.x, self.y), at Fresh(h).
Vector_copy(h, a) == New(h, "Vector", [x |-> Val(Get(h, a, "x")), y |-> Val(Get(h, a, "y"))])

\* The keys of a dict or list, in the order of iteration.
RECURSIVE Ascending(_)
Ascending(S) ==
  IF S = {} THEN <<>>
  ELSE LET least == CHOOSE k \in S : \A j \in S : k <= j
       IN  <<least>> \o Ascending(S \ {least})
Keys(h, a) == Ascending(DOMAIN h.obj[a].at)

\* list(values): a new list, at Fresh(h), of the references in the sequence.
NewList(h, refs) == New(h, "list", [k \in 0..(Len(refs) - 1) |-> Ref(refs[k + 1])])

Values(h, a) == [k \in 1..Len(Keys(h, a)) |-> Get(h, a, Keys(h, a)[k])]

\* The address of the n-th object made from heap h on.
Alloc(h, n) == h.top + n

\* "self._ai_goals = [copy.deepcopy(goal) for goal in goals]": the heap and the
\* copies.
RECURSIVE copy_goals(_, _, _, _)
copy_goals(h, goals_list, keys, refs) ==
  IF keys = <<>> THEN [heap |-> h, refs |-> refs]
  ELSE copy_goals(copy_deepcopy(h, Get(h, goals_list, Head(keys))), goals_list, Tail(keys),
                  Append(refs, Copied(h, Get(h, goals_list, Head(keys)))))

\* "s = copy.deepcopy(seeker); s.owner = p; p.seekers[seeker.id] = s;
\* self._ai_seekers[seeker.id] = s"
copy_seeker(h, seeker, p, p_seekers, ai_seekers) ==
  LET set_owner(g) == Put(g, Copied(h, seeker), "owner", Ref(p))
      set_item(g, dict) == Put(g, dict, Get(g, seeker, "id"), Ref(Copied(h, seeker)))
  IN  set_item(set_item(set_owner(copy_deepcopy(h, seeker)), p_seekers), ai_seekers)

\* "for seeker in player.seekers.values(): ..." of init_ai_state, for the copy p
\* of a player and its dict p_seekers.
RECURSIVE copy_seekers(_, _, _, _, _, _)
copy_seekers(h, seekers_dict, keys, p, p_seekers, ai_seekers) ==
  IF keys = <<>> THEN h
  ELSE copy_seekers(copy_seeker(h, Get(h, seekers_dict, Head(keys)), p, p_seekers, ai_seekers),
                    seekers_dict, Tail(keys), p, p_seekers, ai_seekers)

\* The body of "for player in players.values(): ..." of init_ai_state: the dict
\* of seekers, the list of debug drawings, the Player p, the position of its
\* camp and the Camp are the five objects made, in this order.
copy_player(h, player, ai_players, ai_seekers) ==
  LET p == Alloc(h, 3)
      new_player(g) ==
        New(New(New(g, "dict", <<>>), "list", <<>>), "Player",
            [id |-> Val(Get(g, player, "id")), score |-> Val(Get(g, player, "score")),
             seekers |-> Ref(Alloc(h, 1)), camp |-> None, debug_drawings |-> Ref(Alloc(h, 2))])
      new_camp(g) ==
        New(Vector_copy(g, Get(g, Get(g, player, "camp"), "position")), "Camp",
            [id |-> Val(Get(g, Get(g, player, "camp"), "id")), owner |-> Ref(p),
             position |-> Ref(Alloc(h, 4)),
             width |-> Val(Get(g, Get(g, player, "camp"), "width")),
             height |-> Val(Get(g, Get(g, player, "camp"), "height"))])
      set_camp(g) == Put(g, p, "camp", Ref(Alloc(h, 5)))
      set_item(g) == Put(g, ai_players, Get(g, player, "id"), Ref(p))
  IN  copy_seekers(set_item(set_camp(new_camp(new_player(h)))), Get(h, player, "seekers"),
                   Keys(h, Get(h, player, "seekers")), p, Alloc(h, 1), ai_seekers)

\* "for player in players.values(): ..." of init_ai_state.
RECURSIVE copy_players(_, _, _, _, _)
copy_players(h, players_dict, keys, ai_players, ai_seekers) ==
  IF keys = <<>> THEN h
  ELSE copy_players(copy_player(h, Get(h, players_dict, Head(keys)), ai_players, ai_seekers),
                    players_dict, Tail(keys), ai_players, ai_seekers)

\* init_ai_state after its first statement: _ai_goals, _ai_players and
\* _ai_seekers are the three objects made first, in this order.
init_ai_players(copied, players_dict) ==
  [heap |-> copy_players(New(New(NewList(copied.heap, copied.refs), "dict", <<>>), "dict", <<>>),
                         players_dict, Keys(copied.heap, players_dict),
                         Alloc(copied.heap, 2), Alloc(copied.heap, 3)),
   ai |-> [is_none |-> FALSE, goals |-> Alloc(copied.heap, 1),
           players |-> Alloc(copied.heap, 2), seekers |-> Alloc(copied.heap, 3)]]

\* LocalPlayer.init_ai_state(goals, players): the heap and the player's
\* _ai_seekers, _ai_goals and _ai_players.
LocalPlayer_init_ai_state(h, goals_list, players_dict) ==
  init_ai_players(copy_goals(h, goals_list, Keys(h, goals_list), <<>>), players_dict)

\* "object.field = vector.copy()"
assign_copy(h, object, field, vector) ==
  Put(Vector_copy(h, vector), object, field, Ref(Fresh(h)))

\* The body of "for ai_goal, goal in zip(self._ai_goals, goals): ..."
update_goal(h, ai, ai_goal, goal) ==
  LET set_position(g) == assign_copy(g, ai_goal, "position", Get(g, goal, "position"))
      set_velocity(g) == assign_copy(g, ai_goal, "velocity", Get(g, goal, "velocity"))
      set_owner(g) ==
        Put(g, ai_goal, "owner",
            IF Get(g, goal, "owner") # 0
            THEN Ref(Get(g, ai.players, Get(g, Get(g, goal, "owner"), "id")))
            ELSE None)
      set_time_owned(g) == Put(g, ai_goal, "time_owned", Val(Get(g, goal, "time_owned")))
  IN  set_time_owned(set_owner(set_velocity(set_position(h))))

\* "for ai_goal, goal in zip(self._ai_goals, goals): ..."
RECURSIVE update_goals(_, _, _, _)
update_goals(h, ai, goals_list, keys) ==
  IF keys = <<>> THEN h
  ELSE update_goals(update_goal(h, ai, Get(h, ai.goals, Head(keys)),
                                Get(h, goals_list, Head(keys))),
                    ai, goals_list, Tail(keys))

\* The body of "for seeker_id, seeker in player.seekers.items(): ..."
update_seeker(h, ai_seeker, seeker) ==
  LET set_position(g) == assign_copy(g, ai_seeker, "position", Get(g, seeker, "position"))
      set_velocity(g) == assign_copy(g, ai_seeker, "velocity", Get(g, seeker, "velocity"))
      set_target(g) == assign_copy(g, ai_seeker, "target", Get(g, seeker, "target"))
      set_disabled_counter(g) ==
        Put(g, ai_seeker, "disabled_counter", Val(Get(g, seeker, "disabled_counter")))
      set_strength(g) ==
        Put(g, Get(g, ai_seeker, "magnet"), "strength",
            Val(Get(g, Get(g, seeker, "magnet"), "strength")))
  IN  set_strength(set_disabled_counter(set_target(set_velocity(set_position(h)))))

\* "for seeker_id, seeker in player.seekers.items(): ..."
RECURSIVE update_seekers(_, _, _, _)
update_seekers(h, ai, seekers_dict, keys) ==
  IF keys = <<>> THEN h
  ELSE update_seekers(update_seeker(h, Get(h, ai.seekers, Head(keys)),
                                    Get(h, seekers_dict, Head(keys))),
                      ai, seekers_dict, Tail(keys))

\* "for player in players.values(): ..." of update_ai_state.
RECURSIVE update_players(_, _, _, _)
update_players(h, ai, players_dict, keys) ==
  IF keys = <<>> THEN h
  ELSE update_players(update_seekers(h, ai, Get(h, Get(h, players_dict, Head(keys)), "seekers"),
                                     Keys(h, Get(h, Get(h, players_dict, Head(keys)),
                                                 "seekers"))),
                      ai, players_dict, Tail(keys))

\* update_ai_state after its first statement, with the AI state there is then.
update_ai_objects(start, goals_list, players_dict) ==
  [heap |-> update_players(
              update_goals(start.heap, start.ai, goals_list,
                           Ascending(DOMAIN start.heap.obj[start.ai.goals].at
                                     \cap DOMAIN start.heap.obj[goals_list].at)),
              start.ai, players_dict, Keys(start.heap, players_dict)),
   ai |-> start.ai]

\* LocalPlayer.update_ai_state(goals, players), on the heap.
LocalPlayer_update_ai_state_of(h, ai, goals_list, players_dict) ==
  update_ai_objects(IF ai.is_none THEN LocalPlayer_init_ai_state(h, goals_list, players_dict)
                    ELSE [heap |-> h, ai |-> ai],
                    goals_list, players_dict)

\* The seekers of the players at the keys, in order.
RECURSIVE seekers_of(_, _, _)
seekers_of(h, players_dict, keys) ==
  IF keys = <<>> THEN <<>>
  ELSE Values(h, Get(h, Get(h, players_dict, Head(keys)), "seekers"))
       \o seekers_of(h, players_dict, Tail(keys))

\* The players other than me, as keys of players_dict.
others_of(h, players_dict, me) ==
  SelectSeq(Keys(h, players_dict), LAMBDA k : Get(h, players_dict, k) # me)

\* The camps of the players, in order.
camps_of(h, players_dict) ==
  [k \in 1..Len(Keys(h, players_dict)) |->
     Get(h, Get(h, players_dict, Keys(h, players_dict)[k]), "camp")]

\* get_ai_input after its first statement: the six lists, the World and the
\* tuple returned (time, a number, left out) are the eight objects made, in
\* this order.
build_ai_input(h, me, ai, world_ref) ==
  LET my_seekers == Values(h, Get(h, me, "seekers"))
      other_seekers == seekers_of(h, ai.players, others_of(h, ai.players, me))
      new_seekers(g) ==
        NewList(NewList(NewList(g, my_seekers), other_seekers), my_seekers \o other_seekers)
      new_goals(g) == NewList(g, Values(h, ai.goals))
      new_players(g) ==
        NewList(g, [k \in 1..Len(others_of(h, ai.players, me)) |->
                      Get(h, ai.players, others_of(h, ai.players, me)[k])])
      new_camps(g) == NewList(g, camps_of(h, ai.players))
      new_world(g) == New(g, "World", [width |-> Val(Get(g, world_ref, "width")),
                                       height |-> Val(Get(g, world_ref, "height"))])
      new_tuple(g) ==
        New(g, "tuple",
            [my_seekers |-> Ref(Alloc(h, 1)), other_seekers |-> Ref(Alloc(h, 2)),
             all_seekers |-> Ref(Alloc(h, 3)), goals |-> Ref(Alloc(h, 4)),
             other_players |-> Ref(Alloc(h, 5)), my_camp |-> Ref(Get(h, me, "camp")),
             camps |-> Ref(Alloc(h, 6)), world |-> Ref(Alloc(h, 7))])
  IN  [heap |-> new_tuple(new_world(new_camps(new_players(new_goals(new_seekers(h)))))),
       ai |-> ai, input |-> Alloc(h, 8)]

\* LocalPlayer.get_ai_input(world, goals, players, time): the heap, the AI
\* state and the tuple returned.
ai_input_of(updated, self, world_ref) ==
  build_ai_input(updated.heap, Get(updated.heap, updated.ai.players, self), updated.ai, world_ref)

LocalPlayer_get_ai_input(h, self, ai, world_ref, goals_list, players_dict) ==
  ai_input_of(LocalPlayer_update_ai_state_of(h, ai, goals_list, players_dict), self, world_ref)

\* The body of the loop of process_ai_output for ai_seeker and the player's
\* own_seeker, the seeker id being one of the player's: the heap, and whether
\* the loop goes on (no exception).
apply_ai_seeker(h, own_seeker, ai_seeker) ==
  LET strength == Get(h, Get(h, ai_seeker, "magnet"), "strength")
      set_target(g) ==
        Put(Put(g, Get(g, own_seeker, "target"), "x", Val(Get(g, Get(g, ai_seeker, "target"), "x"))),
            Get(g, own_seeker, "target"), "y", Val(Get(g, Get(g, ai_seeker, "target"), "y")))
      set_strength(g) == Put(g, Get(g, own_seeker, "magnet"), "strength", Val(strength))
  IN  IF h.obj[ai_seeker].kind # "Seeker" THEN [heap |-> h, ok |-> FALSE]
      ELSE IF h.obj[Get(h, ai_seeker, "target")].kind # "Vector" THEN [heap |-> h, ok |-> FALSE]
      ELSE IF h.obj[Get(h, ai_seeker, "magnet")].kind # "Magnet" THEN [heap |-> h, ok |-> FALSE]
      ELSE IF ~(1 >= strength /\ strength >= -8) THEN [heap |-> set_target(h), ok |-> FALSE]
      ELSE [heap |-> set_strength(set_target(h)), ok |-> TRUE]

\* LocalPlayer.process_ai_output(ai_output) from its loop on, for the seekers
\* still to apply: an exception ends the loop and keeps what was written. The
\* numbers of the heap are values float() leaves as they are.
RECURSIVE apply_ai_output(_, _, _)
apply_ai_output(h, own_seekers, ai_output) ==
  IF ai_output = <<>> THEN h
  ELSE IF Get(h, Head(ai_output), "id") \notin DOMAIN h.obj[own_seekers].at THEN h
  ELSE LET applied == apply_ai_seeker(h, Get(h, own_seekers, Get(h, Head(ai_output), "id")),
                                      Head(ai_output))
       IN  IF applied.ok THEN apply_ai_output(applied.heap, own_seekers, Tail(ai_output))
           ELSE applied.heap

\* LocalPlayer.process_ai_output(ai_output), for the live player at self_ref and
\* the AI's list of seekers.
LocalPlayer_process_ai_output_of(h, self_ref, ai_output) ==
  IF Len(ai_output) # Len(Keys(h, Get(h, self_ref, "seekers"))) THEN h
  ELSE apply_ai_output(h, Get(h, self_ref, "seekers"), ai_output)

(***************************************************************************)
(* SpecCopy: two LocalPlayers with a seeker each and one goal, as objects  *)
(* on the heap.  A poll builds the AI input, the AI writes to what it was  *)
(* given, and the output it returns is processed.                          *)
(***************************************************************************)

\* Steps (inputs built, writes of the AI, outputs processed) of a run.
MaxSteps == 4

PlayerIds == {1, 2}

\* The live objects after construction: the world, the players with camp and
\* seeker, the goal owned by nobody or by a player.
LiveObjects(owner) ==
  [k \in 1..29 |->
     CASE k = 1 -> Obj("World", [width |-> Val(4), height |-> Val(4)])
       [] k = 2 -> Obj("dict", (1 :> Ref(3)) @@ (2 :> Ref(4)))
       [] k \in {3, 4} -> Obj("Player", [id |-> Val(k - 2), score |-> Val(0),
                                         seekers |-> Ref(k + 2), camp |-> Ref(k + 4),
                                         debug_drawings |-> Ref(k + 6)])
       [] k \in {5, 6} -> Obj("dict", ((k - 4) :> Ref(k + 6)))
       [] k \in {7, 8} -> Obj("Camp", [id |-> Val(k - 6), owner |-> Ref(k - 4),
                                       position |-> Ref(k + 6), width |-> Val(1),
                                       height |-> Val(1)])
       [] k \in {9, 10} -> Obj("list", <<>>)
       [] k \in {11, 12} -> Obj("Seeker", [id |-> Val(k - 10), owner |-> Ref(k - 8),
                                           position |-> Ref(k + 4), velocity |-> Ref(k + 6),
                                           acceleration |-> Ref(k + 8), target |-> Ref(k + 10),
                                           magnet |-> Ref(k + 12),
                                           disabled_counter |-> Val(0)])
       [] k \in {13, 14} -> Obj("Vector", [x |-> Val(k - 12), y |-> Val(0)])
       [] k \in {15, 16} -> Obj("Vector", [x |-> Val(k - 14), y |-> Val(2)])
       [] k \in 17..22 -> Obj("Vector", [x |-> Val(0), y |-> Val(0)])
       [] k \in {23, 24} -> Obj("Magnet", [strength |-> Val(0)])
       [] k = 25 -> Obj("list", (0 :> Ref(26)))
       [] k = 26 -> Obj("Goal", [position |-> Ref(27), velocity |-> Ref(28),
                                 acceleration |-> Ref(29),
                                 owner |-> IF owner = 0 THEN None ELSE Ref(owner + 2),
                                 time_owned |-> IF owner = 0 THEN Val(0) ELSE Val(1)])
       [] k = 27 -> Obj("Vector", [x |-> Val(3), y |-> Val(3)])
       [] k \in {28, 29} -> Obj("Vector", [x |-> Val(0), y |-> Val(0)])]

\* The objects of the simulation: all that the world, the players and the goals
\* lead to.
Live(h) == Reach(h, {world, players, goals})

\* What an AI holding the input at ref can get at.
Given(h, ref) == IF ref = 0 THEN {} ELSE Reach(h, {ref})

CopyInit ==
  /\ world = 1
  /\ players = 2
  /\ goals = 25
  /\ seekers = (1 :> 11) @@ (2 :> 12)
  /\ animations = <<>>
  /\ \E owner \in {0} \cup PlayerIds : heap = [obj |-> LiveObjects(owner), top |-> 29]
  /\ ai_state = [p \in PlayerIds |-> [is_none |-> TRUE, goals |-> 0, players |-> 0, seekers |-> 0]]
  /\ call = [op |-> "init", steps |-> 0, self |-> 0, input |-> 0, before |-> <<>>]

\* poll_ai, first statement: ai_input = self.get_ai_input(world, goals, players, time_).
GetAiInput(self) ==
  /\ call.op \in {"init", "process_ai_output"}
  /\ call.steps < MaxSteps
  /\ LET got == LocalPlayer_get_ai_input(heap, self, ai_state[self], world, goals, players)
     IN  /\ heap' = got.heap
         /\ ai_state' = [ai_state EXCEPT ![self] = got.ai]
         /\ call' = [op |-> "get_ai_input", steps |-> call.steps + 1, self |-> self,
                     input |-> got.input, before |-> heap]
  /\ UNCHANGED <<world, seekers, goals, players, animations>>

\* The number fields of an object, each raised by one.
Scribbled(object) ==
  [object EXCEPT !.at = [f \in DOMAIN @ |-> IF @[f].is_ref THEN @[f] ELSE Val(@[f].v + 1)]]

\* The kinds of object a decide function writes to in one go.
Kinds == {{"Seeker", "Goal"}, {"Player", "Camp", "World"}, {"Vector", "Magnet"}}

\* call_ai: the decide function writes to the objects of some kinds that it was
\* given.
AiMutates(kinds) ==
  /\ call.op \in {"get_ai_input", "decide"}
  /\ call.steps < MaxSteps
  /\ LET given == {a \in Given(heap, call.input) : heap.obj[a].kind \in kinds}
     IN  heap' = [heap EXCEPT !.obj = [a \in DOMAIN @ |-> IF a \in given THEN Scribbled(@[a])
                                                          ELSE @[a]]]
  /\ call' = [call EXCEPT !.op = "decide", !.steps = @ + 1, !.before = heap]
  /\ UNCHANGED <<world, seekers, goals, players, animations, ai_state>>

\* call_ai: the decide function gives its first seeker the target and the magnet
\* of another seeker it was given.
AiRebinds ==
  /\ call.op \in {"get_ai_input", "decide"}
  /\ call.steps < MaxSteps
  /\ LET mine == Get(heap, Get(heap, call.input, "my_seekers"), 0)
         other == Get(heap, Get(heap, call.input, "other_seekers"), 0)
     IN  heap' = Put(Put(heap, mine, "target", Ref(Get(heap, other, "target"))),
                     mine, "magnet", Ref(Get(heap, other, "magnet")))
  /\ call' = [call EXCEPT !.op = "decide", !.steps = @ + 1, !.before = heap]
  /\ UNCHANGED <<world, seekers, goals, players, animations, ai_state>>

\* The lists of seekers an AI can return from what it was given.
Outputs == {"my_seekers", "other_seekers", "all_seekers"}

\* poll_ai, after call_ai returned: self.process_ai_output(ai_output).
ProcessAiOutput(output) ==
  /\ call.op \in {"get_ai_input", "decide"}
  /\ call.steps < MaxSteps
  /\ heap' = LocalPlayer_process_ai_output_of(heap, Get(heap, players, call.self),
                                              Values(heap, Get(heap, call.input, output)))
  /\ call' = [call EXCEPT !.op = "process_ai_output", !.steps = @ + 1, !.before = heap]
  /\ UNCHANGED <<world, seekers, goals, players, animations, ai_state>>

CopyNext ==
  \/ \E self \in PlayerIds : GetAiInput(self)
  \/ \E kinds \in Kinds : AiMutates(kinds)
  \/ AiRebinds
  \/ \E output \in Outputs : ProcessAiOutput(output)

SpecCopy == CopyInit /\ [][CopyNext]_vars

\* The live objects of h0 that are not the same in h1.
Changed(h0, h1) == {a \in Live(h0) : h1.obj[a] # h0.obj[a]}

\* The target and the magnet of each of a player's own seekers.
OwnParts(h, self) ==
  LET own == Get(h, Get(h, players, self), "seekers")
  IN  {Get(h, Get(h, own, id), part) : id \in DOMAIN h.obj[own].at, part \in {"target", "magnet"}}

\* C15: the AI input built by get_ai_input shares no object with the
\* simulation; whatever the AI writes to the seekers, goals, players, camps or
\* world it was given leaves every live object as it was; process_ai_output
\* changes nothing but the target and the magnet of the polled player's own
\* seekers.
C15_IndependentCopy ==
  /\ call.op = "get_ai_input" =>
       /\ Given(heap, call.input) \cap Live(heap) = {}
       /\ Changed(call.before, heap) = {}
  /\ call.op = "decide" =>
       /\ Changed(call.before, heap) = {}
       /\ Live(heap) = Live(call.before)
       /\ Given(heap, call.input) \cap Live(heap) = {}
  /\ call.op = "process_ai_output" =>
       /\ Changed(call.before, heap) \subseteq OwnParts(call.before, call.self)
       /\ Live(heap) = Live(call.before)

\* C15 witness: the AI has written to what it was given, and its copy of a
\* seeker's magnet no longer has the strength of the live seeker's magnet.
C15_Witness ==
  /\ call.op = "decide"
  /\ \E id \in DOMAIN seekers :
       Get(heap, Get(heap, Get(heap, ai_state[call.self].seekers, id), "magnet"), "strength")
         # Get(heap, Get(heap, seekers[id], "magnet"), "strength")

====
